---- MODULE Spec2Model ----
(***************************************************************************)
(* CSOCR (src/application.py): the upload callback orders the uploaded     *)
(* comic segments by greedy nearest-neighbour chaining on the Word Mover's *)
(* Distance.  A segment is the (div, text) pair gen() returns; it is       *)
(* modelled by its position 1..n in the upload.  model.wmdistance is an    *)
(* external oracle: each call draws its answer from DistVals.  The names    *)
(* argument is only zipped into gen() and plays no part in the ordering.   *)
(*                                                                         *)
(* Distances are floats that the code only ever compares with <, so they   *)
(* are modelled by an order-preserving scale: 0..MaxDist are the finite    *)
(* distances below int(1e15), Sentinel is 1e15 itself, Above a finite      *)
(* distance beyond it, Infinity is float('inf') and NaN compares false     *)
(* with everything.  Sequence indices are Python's (0-based, negative      *)
(* from the end).                                                          *)
(***************************************************************************)
EXTENDS Integers, Sequences, FiniteSets, TLC

VARIABLES contents, memo, pc, generated, ordered, min_dist, min_i, i,
          result, error, calls, steps, scan, uniform, runs, first

vars == <<contents, memo, pc, generated, ordered, min_dist, min_i, i,
          result, error, calls, steps, scan, uniform, runs, first>>

\* ------------------------------------------------------------- bounds
MaxSegs == 5
MaxDist == 5
MaxSegsRepeat == 3
MaxDistRepeat == 1
MaxRuns == 2

\* ---------------------------------------------------------- distances
Sentinel == MaxDist + 1
Above == Sentinel + 1
Infinity == Sentinel + 2
NaN == -1

DistVals == (0..MaxDist) \cup {Sentinel, Above, Infinity, NaN}
DistValsRepeat == (0..MaxDistRepeat) \cup {Sentinel, Above, Infinity, NaN}

\* Python's None (contents before any upload, and the callback's implicit
\* return value): 0 is no segment.
None == <<0>>

\* The uploads of n segments, in upload order.
Segments(n) == [k \in 1..n |-> k]

Inputs(max) == {None} \cup {Segments(n) : n \in 0..max}

\* ------------------------------------------------------------ helpers
\* Variant of Less: <= in place of <.
LessEq(a, b) == a # NaN /\ b # NaN /\ a <= b
\* dist < min_dist on floats: false as soon as one side is NaN.
Less(a, b) == a # NaN /\ b # NaN /\ a < b

\* Python's index normalisation: a negative index counts from the end.
PyIndex(s, k) == IF k < 0 THEN k + Len(s) ELSE k

InRange(s, k) == PyIndex(s, k) >= 0 /\ PyIndex(s, k) < Len(s)

\* s[k]
PyAt(s, k) == s[PyIndex(s, k) + 1]

\* Variant of PyPop: pops the front whatever the index.
PyPopFront(s, k) == Tail(s)
\* s.pop(k): s without its k-th element
PyPop(s, k) == SubSeq(s, 1, PyIndex(s, k)) \o SubSeq(s, PyIndex(s, k) + 2, Len(s))

\* Variant of LoopCond: >= in place of >.
LoopCondGe(gen) == Len(gen) >= 0
\* while len(generated) > 0
LoopCond(gen) == Len(gen) > 0

\* Variant of ScanCond: range(len(generated) - 1).
ScanCondShort(k, gen) == k < Len(gen) - 1
\* for i in range(len(generated))
ScanCond(k, gen) == k < Len(gen)

\* Variant of Anchor: generated[-1].
AnchorLast(gen) == gen[Len(gen)]
\* generated[0]
Anchor(gen) == gen[1]

\* The distinct oracle answers of the call so far, kept only as far as the
\* question "was it one constant?" needs: {} before the first answer, {d}
\* while every answer was d, and all of DistVals once two answers differed.
Track(u, d) == IF u = {} THEN {d} ELSE IF u = {d} THEN u ELSE DistVals

\* -------------------------------------------------------------- state
InitWith(inputs) ==
    /\ contents \in inputs
    /\ memo = <<>>
    /\ pc = "idle"
    /\ generated = <<>>
    /\ ordered = <<>>
    /\ min_dist = Sentinel
    /\ min_i = -1
    /\ i = 0
    /\ result = None
    /\ error = "none"
    /\ calls = 0
    /\ steps = 0
    /\ scan = <<>>
    /\ uniform = {}
    /\ runs = 1
    /\ first = None

Init == InitWith(Inputs(MaxSegs))

InitRepeat == InitWith(Inputs(MaxSegsRepeat))

\* ------------------------------------------------------------ actions
\* if contents is not None: ... else fall off the end, returning None.
UploadNone ==
    /\ pc = "idle"
    /\ contents = None
    /\ pc' = "done"
    /\ result' = None
    /\ UNCHANGED <<contents, memo, generated, ordered, min_dist, min_i, i,
                   error, calls, steps, scan, uniform, runs, first>>

\* generated = [gen(c, n) ...]; ordered = [generated[0]] on an empty list.
UploadEmpty ==
    /\ pc = "idle"
    /\ contents # None
    /\ Len(contents) = 0
    /\ generated' = contents
    /\ pc' = "raised"
    /\ error' = "IndexError"
    /\ UNCHANGED <<contents, memo, ordered, min_dist, min_i, i, result,
                   calls, steps, scan, uniform, runs, first>>

\* Variant of UploadSome: ordered outlives the call (a module-level list
\* that is appended to instead of a fresh local).
UploadKeepOrdered ==
    /\ pc = "idle"
    /\ contents # None
    /\ Len(contents) > 0
    /\ ordered' = Append(ordered, Anchor(contents))
    /\ generated' = PyPop(contents, 0)
    /\ pc' = "loop"
    /\ calls' = 0
    /\ steps' = 0
    /\ scan' = <<>>
    /\ uniform' = {}
    /\ UNCHANGED <<contents, memo, min_dist, min_i, i, result, error, runs, first>>

\* generated = [gen(c, n) ...]; ordered = [generated[0]]; generated.pop(0)
UploadSome ==
    /\ pc = "idle"
    /\ contents # None
    /\ Len(contents) > 0
    /\ ordered' = <<Anchor(contents)>>
    /\ generated' = PyPop(contents, 0)
    /\ pc' = "loop"
    /\ calls' = 0
    /\ steps' = 0
    /\ scan' = <<>>
    /\ uniform' = {}
    /\ UNCHANGED <<contents, memo, min_dist, min_i, i, result, error, runs, first>>

\* while len(generated) > 0: min_dist = int(1e15); min_i = -1
LoopHead ==
    /\ pc = "loop"
    /\ LoopCond(generated)
    /\ min_dist' = Sentinel
    /\ min_i' = -1
    /\ i' = 0
    /\ scan' = <<>>
    /\ pc' = "scan"
    /\ UNCHANGED <<contents, memo, generated, ordered, result, error, calls,
                   steps, uniform, runs, first>>

\* The loop is left: children = [item[0] for item in ordered]; return children
Return ==
    /\ pc = "loop"
    /\ ~LoopCond(generated)
    /\ result' = ordered
    /\ pc' = "done"
    /\ UNCHANGED <<contents, memo, generated, ordered, min_dist, min_i, i,
                   error, calls, steps, scan, uniform, runs, first>>

\* One iteration of the for loop, the oracle answering d:
\* dist = model.wmdistance(ordered[-1] text, generated[i] text)
\* if dist < min_dist: min_i = i; min_dist = dist
Compare(d) ==
    /\ pc = "scan"
    /\ ScanCond(i, generated)
    /\ scan' = Append(scan, [a |-> PyAt(ordered, Len(ordered) - 1),
                             b |-> PyAt(generated, i),
                             d |-> d])
    /\ calls' = calls + 1
    /\ uniform' = Track(uniform, d)
    /\ IF Less(d, min_dist)
         THEN min_i' = i /\ min_dist' = d
         ELSE UNCHANGED <<min_i, min_dist>>
    /\ i' = i + 1
    /\ UNCHANGED <<contents, pc, generated, ordered, result, error, steps,
                   runs, first>>

\* The oracle answers anything.
Scan ==
    /\ \E d \in DistVals : Compare(d)
    /\ UNCHANGED memo

\* The oracle is a function: a pair it has answered gets the same answer.
ScanMemo ==
    \E d \in DistValsRepeat :
      LET pair == <<PyAt(ordered, Len(ordered) - 1), PyAt(generated, i)>> IN
        /\ Compare(d)
        /\ pair \in DOMAIN memo => d = memo[pair]
        /\ memo' = (pair :> d) @@ memo

\* The for loop is exhausted: ordered.append(generated[min_i]);
\* generated.pop(min_i).  Indexing an empty list raises IndexError.
Select ==
    /\ pc = "scan"
    /\ ~ScanCond(i, generated)
    /\ IF InRange(generated, min_i)
         THEN /\ ordered' = Append(ordered, PyAt(generated, min_i))
              /\ generated' = PyPop(generated, min_i)
              /\ steps' = steps + 1
              /\ pc' = "loop"
              /\ UNCHANGED error
         ELSE /\ pc' = "raised"
              /\ error' = "IndexError"
              /\ UNCHANGED <<ordered, generated, steps>>
    /\ UNCHANGED <<contents, memo, min_dist, min_i, i, result, calls, scan,
                   uniform, runs, first>>

\* Dash invokes the callback again with the same uploads; the previous
\* call's locals are gone and every one is assigned before it is read.
Reupload ==
    /\ pc = "done"
    /\ runs < MaxRuns
    /\ runs' = runs + 1
    /\ first' = result
    /\ pc' = "idle"
    /\ UNCHANGED <<contents, memo, generated, ordered, min_dist, min_i, i,
                   result, error, calls, steps, scan, uniform>>

Next == UploadNone \/ UploadEmpty \/ UploadSome \/ LoopHead \/ Scan \/ Select \/ Return

NextRepeat == UploadNone \/ UploadEmpty \/ UploadSome \/ LoopHead \/ ScanMemo
              \/ Select \/ Return \/ Reupload

Spec == Init /\ [][Next]_vars

\* The callback is synchronous: once invoked it runs every step to its end.
FairSpec == Init /\ [][Next]_vars /\ WF_vars(Next)

SpecRepeat == InitRepeat /\ [][NextRepeat]_vars

\* ------------------------------------------------------------- claims
Count(s, x) == Cardinality({k \in 1..Len(s) : s[k] = x})

\* s holds every element of t exactly once and nothing else.
IsPermutation(s, t) ==
    /\ Len(s) = Len(t)
    /\ \A k \in 1..Len(t) : Count(s, t[k]) = 1

NonEmptyInput == contents # None /\ Len(contents) >= 1

\* The for loop of a chaining step is exhausted; the selection is next.
AtSelect == pc = "scan" /\ ~(i < Len(generated))

\* A distance strictly below int(1e15).
BelowSentinel(d) == d \in 0..MaxDist

\* No candidate of the step that was just scanned is below the sentinel.
NoneBelow == AtSelect /\ \A k \in 1..Len(scan) : ~BelowSentinel(scan[k].d)

\* C1: for a non-empty input and any oracle answers (infinite and
\* at-or-above-sentinel ones included) the call raises nothing, ordered
\* followed by the remaining list is a permutation of the input throughout,
\* and the returned ordering is a permutation of the input.
C1_Permutation ==
    NonEmptyInput =>
      /\ pc # "raised"
      /\ pc \in {"loop", "scan"} => IsPermutation(ordered \o generated, contents)
      /\ pc = "done" => IsPermutation(result, contents)

C1_Witness ==
    /\ pc = "done"
    /\ Len(contents) >= 4
    /\ uniform = {Infinity}
    /\ result # contents
    /\ IsPermutation(result, contents)

\* C2: the segment a chaining step appends is the scanned candidate of
\* smallest distance from the last placed segment (first argument of every
\* oracle call of the step), the earliest one among equal smallest distances.
C2_NearestEarliest ==
    [][(AtSelect /\ \A k \in 1..Len(scan) : scan[k].d # NaN) =>
         \E k \in 1..Len(scan) :
           /\ ordered' = Append(ordered, scan[k].b)
           /\ scan[k].a = ordered[Len(ordered)]
           /\ \A j \in 1..Len(scan) : scan[j].d >= scan[k].d
           /\ \A j \in 1..(k - 1) : scan[j].d # scan[k].d]_vars

\* C3: a chaining step in which no candidate's distance falls below the
\* running best (all infinite, or at or above the sentinel) ends the call
\* with the NoSelectableCandidate error.
C3_RaisesNoSelectable ==
    [][NoneBelow => (pc' = "raised" /\ error' = "NoSelectableCandidate")]_vars

\* C4: when the oracle answered every call of the run with one and the same
\* distance, whatever it is, the returned ordering is the input order.
C4_ConstantKeepsOrder ==
    (pc = "done" /\ contents # None /\ Cardinality(uniform) <= 1 /\ NaN \notin uniform)
      => result = contents

\* C5: for a non-empty input the first input segment is at position 0 of
\* the ordering from the moment it is placed, is never in the remaining
\* list again, is never a candidate of an oracle call, and is the first
\* element of the returned ordering.
C5_Anchor ==
    (NonEmptyInput /\ pc # "idle") =>
      /\ Len(ordered) >= 1
      /\ ordered[1] = contents[1]
      /\ \A k \in 1..Len(generated) : generated[k] # contents[1]
      /\ \A k \in 1..Len(scan) : scan[k].b # contents[1]
      /\ pc = "done" => result[1] = contents[1]

C5_Witness ==
    /\ pc = "done"
    /\ Len(contents) >= 3
    /\ result[1] = contents[1]
    /\ result[2] # contents[2]
    /\ Cardinality(uniform) > 1

\* C6: a call with zero segments ends with the EmptyInput error.
C6_EmptyInputSignalled ==
    (contents = <<>> /\ pc # "idle") => (pc = "raised" /\ error = "EmptyInput")

\* C7: with exactly one segment the call makes no oracle call, raises
\* nothing and returns the ordering holding that segment alone.
C7_Singleton ==
    contents = Segments(1) =>
      /\ calls = 0
      /\ pc # "raised"
      /\ pc # "scan"
      /\ pc = "done" => result = contents

C7_Witness == contents = Segments(1) /\ pc = "done" /\ result = <<1>> /\ calls = 0

\* C8: a second call on the same uploads, the oracle answering every pair as
\* it did before, returns the ordering the first call returned.
C8_Deterministic ==
    (runs >= 2 /\ pc = "done") => result = first

C8_Witness ==
    /\ runs = 2
    /\ pc = "done"
    /\ Len(result) >= 3
    /\ result = first
    /\ result # contents

\* The k-th chaining step (k = steps + 1) of a call on n segments.
C9_Shape ==
    NonEmptyInput =>
      /\ pc \in {"loop", "scan"} => Len(generated) = Len(contents) - 1 - steps
      /\ pc = "scan" =>
           /\ Len(scan) = i
           /\ \A k \in 1..Len(scan) :
                scan[k].a = ordered[Len(ordered)] /\ scan[k].b = generated[k]
      /\ AtSelect => Len(scan) = Len(contents) - (steps + 1)
      /\ pc # "raised"

C9_Finished ==
    /\ pc = "done"
    /\ steps = Len(contents) - 1
    /\ 2 * calls = Len(contents) * (Len(contents) - 1)

\* C9: a call on n >= 1 segments terminates after exactly n-1 chaining
\* steps; each step removes one segment from the remaining list, the k-th
\* step makes n-k oracle calls, one per remaining candidate in list order,
\* and the call makes n(n-1)/2 oracle calls in all.
C9_Terminates ==
    /\ [](C9_Shape)
    /\ [](pc = "done" /\ contents # None => C9_Finished)
    /\ NonEmptyInput => <>C9_Finished

C9_Witness ==
    /\ pc = "done"
    /\ Len(contents) >= 4
    /\ steps = Len(contents) - 1
    /\ 2 * calls = Len(contents) * (Len(contents) - 1)

\* C10: a chaining step in which no candidate's distance is strictly below
\* the sentinel leaves min_i at -1, raises nothing, appends the LAST element
\* of the remaining list and removes it, the elements before it staying in
\* their order.
C10_PopsLast ==
    [][NoneBelow =>
         /\ min_i = -1
         /\ pc' = "loop"
         /\ error' = "none"
         /\ ordered' = Append(ordered, generated[Len(generated)])
         /\ generated' = SubSeq(generated, 1, Len(generated) - 1)]_vars

C10_Witness ==
    /\ pc = "loop"
    /\ steps = 1
    /\ min_i = -1
    /\ Len(scan) = 3
    /\ \A k \in 1..Len(scan) : ~BelowSentinel(scan[k].d)
    /\ ordered = <<1, 4>>
    /\ generated = <<2, 3>>

====
